---- MODULE Spec2Model ----
(***************************************************************************)
(* Model of pipeline/backend/group.py: the Group value holder, its         *)
(* constructor and its display string, together with the Python object     *)
(* semantics the constructor relies on (list objects live on a heap and    *)
(* are held by reference; a default argument value is built once, when the *)
(* function is defined).                                                   *)
(***************************************************************************)
EXTENDS Naturals, Sequences

\* ---------------------------------------------------------------- bounds
MaxGroups == 2    \* Group instances constructed in one run
MaxLogLen == 1    \* elements a list object is grown to by append

\* ---------------------------------------------------------------- inputs
\* Optional[T]: the empty tuple is None, a one-element tuple is a value.
None == <<>>
Some(v) == <<v>>

Gids == {"", "svc-7"}
Urls == {None, Some("https://example.test")}
Infras == {None, Some("someDescriptor")}
\* What the caller's own list holds when the run starts.
Literals == {<<>>, <<"entryA", "entryB">>}
\* What append adds.
Entries == {"entryC"}

VARIABLES
    heap,    \* the list objects: heap[a] is the content of the list at address a
    groups,  \* the Group instances, in order of construction: their four fields
    passed,  \* per instance, the address its constructor call was given as
             \* `logs`, 0 when the call gave none (history)
    ret      \* the call made by the last step and its outcome

vars == <<heap, groups, passed, ret>>

\* The address of the list object that line 11 builds when the class body runs:
\* the one value of the default argument `logs = []`.
DefaultLogs == 1
\* The address of a list object the calling code built and keeps a name for.
CallerLogs == 2

\* When the last step made no call.
NoCall == [op |-> "none"]

\* ------------------------------------------------------------ the class
\* Variants of the constructor, each with one slip a rewrite could make.
\* The url and global_infra parameters assigned crosswise.
InitCrossed(h, gid, logs, url, global_infra) ==
    [raised |-> FALSE,
     heap |-> h,
     self |-> [logs |-> logs, gid |-> gid, url |-> global_infra,
               global_infra |-> url]]

\* self.logs = list(logs): a private copy, a new list object.
InitCopying(h, gid, logs, url, global_infra) ==
    [raised |-> FALSE,
     heap |-> Append(h, h[logs]),
     self |-> [logs |-> Len(h) + 1, gid |-> gid, url |-> url,
               global_infra |-> global_infra]]

\* logs.append(gid) after the assignments: the list handed in is written to.
InitTagging(h, gid, logs, url, global_infra) ==
    [raised |-> FALSE,
     heap |-> [h EXCEPT ![logs] = Append(@, gid)],
     self |-> [logs |-> logs, gid |-> gid, url |-> url,
               global_infra |-> global_infra]]

\* if not gid: raise ValueError, before the assignments.
InitValidating(h, gid, logs, url, global_infra) ==
    [raised |-> gid = "",
     heap |-> h,
     self |-> [logs |-> logs, gid |-> gid, url |-> url,
               global_infra |-> global_infra]]

\* Group.__init__: four plain assignments. It is given the heap because the
\* body could reach the list it is handed; it does not touch it.
__init__(h, gid, logs, url, global_infra) ==
    [raised |-> FALSE,
     heap |-> h,
     self |-> [logs |-> logs, gid |-> gid, url |-> url,
               global_infra |-> global_infra]]

\* Variants of the display string.
\* The closing bracket left out of the f-string.
StrUnclosed(h, self) ==
    [raised |-> FALSE, value |-> "<Group gid=" \o self.gid]

\* The url shown too when there is one.
StrWithUrl(h, self) ==
    [raised |-> FALSE,
     value |-> IF self.url = None THEN "<Group gid=" \o self.gid \o ">"
               ELSE "<Group gid=" \o self.gid \o " url=" \o self.url[1] \o ">"]

\* An empty gid shown as a bare tag.
StrBare(h, self) ==
    [raised |-> FALSE,
     value |-> IF self.gid = "" THEN "<Group>" ELSE "<Group gid=" \o self.gid \o ">"]

\* Group.__str__: the f-string of line 22. It is given the heap because the
\* body could read the list behind self.logs; it reads self.gid alone.
__str__(h, self) ==
    [raised |-> FALSE, value |-> "<Group gid=" \o self.gid \o ">"]

\* ---------------------------------------------------------------- steps
Init ==
    /\ \E c \in Literals : heap = << <<>>, c >>
    /\ groups = <<>>
    /\ passed = <<>>
    /\ ret = NoCall

\* The call Group(...) once its parameters are bound: the state it leaves.
\* `given` is the address the caller gave as `logs`, 0 when `logs` was bound
\* from the default.
Call(gid, logs, url, global_infra, given) ==
    LET r == __init__(heap, gid, logs, url, global_infra)
    IN  [heap |-> r.heap,
         groups |-> IF r.raised THEN groups ELSE Append(groups, r.self),
         passed |-> IF r.raised THEN passed ELSE Append(passed, given),
         ret |-> [op |-> "init", raised |-> r.raised, self |-> Len(groups) + 1,
                  gid |-> gid, logs |-> logs, url |-> url,
                  global_infra |-> global_infra, given |-> given,
                  content |-> heap[logs]]]

\* Group(gid): logs, url and global_infra take their defaults.
ConstructDefault(gid) ==
    /\ Len(groups) < MaxGroups
    /\ LET c == Call(gid, DefaultLogs, None, None, 0)
       IN  /\ heap' = c.heap
           /\ groups' = c.groups
           /\ passed' = c.passed
           /\ ret' = c.ret

\* Group(gid, L, url, global_infra) with L the caller's own list.
Construct(gid, url, global_infra) ==
    /\ Len(groups) < MaxGroups
    /\ LET c == Call(gid, CallerLogs, url, global_infra, CallerLogs)
       IN  /\ heap' = c.heap
           /\ groups' = c.groups
           /\ passed' = c.passed
           /\ ret' = c.ret

\* The addresses the calling code can reach: its own list, and any
\* instance's logs field.
Reachable == {CallerLogs} \cup {groups[i].logs : i \in DOMAIN groups}

\* list.append(e) on the list object at address a, in place.
ListAppend(a, e) ==
    /\ a \in Reachable
    /\ Len(heap[a]) < MaxLogLen
    /\ heap' = [heap EXCEPT ![a] = Append(@, e)]
    /\ ret' = [op |-> "append", addr |-> a]
    /\ UNCHANGED <<groups, passed>>

\* str(groups[i])
Str(i) ==
    /\ i \in DOMAIN groups
    /\ LET r == __str__(heap, groups[i])
       IN  ret' = [op |-> "str", raised |-> r.raised, self |-> i, value |-> r.value]
    /\ UNCHANGED <<heap, groups, passed>>

\* The owning code reassigns a field. An assignment of the value the field
\* already holds leaves the instance as it is, and is not a step.
\* groups[i].gid = g
AssignGid(i, g) ==
    /\ i \in DOMAIN groups
    /\ g # groups[i].gid
    /\ groups' = [groups EXCEPT ![i].gid = g]
    /\ ret' = [op |-> "setattr", self |-> i, name |-> "gid", old |-> groups[i].gid]
    /\ UNCHANGED <<heap, passed>>

\* groups[i].logs = the list at address a
AssignLogs(i, a) ==
    /\ i \in DOMAIN groups
    /\ a \in Reachable
    /\ a # groups[i].logs
    /\ groups' = [groups EXCEPT ![i].logs = a]
    /\ ret' = [op |-> "setattr", self |-> i, name |-> "logs"]
    /\ UNCHANGED <<heap, passed>>

\* groups[i].url = u
AssignUrl(i, u) ==
    /\ i \in DOMAIN groups
    /\ u # groups[i].url
    /\ groups' = [groups EXCEPT ![i].url = u]
    /\ ret' = [op |-> "setattr", self |-> i, name |-> "url"]
    /\ UNCHANGED <<heap, passed>>

\* groups[i].global_infra = x
AssignGlobalInfra(i, x) ==
    /\ i \in DOMAIN groups
    /\ x # groups[i].global_infra
    /\ groups' = [groups EXCEPT ![i].global_infra = x]
    /\ ret' = [op |-> "setattr", self |-> i, name |-> "global_infra"]
    /\ UNCHANGED <<heap, passed>>

\* Construction, in-place mutation of the lists, and the display string.
Next ==
    \/ \E g \in Gids : ConstructDefault(g)
    \/ \E g \in Gids, u \in Urls, x \in Infras : Construct(g, u, x)
    \/ \E a \in {DefaultLogs, CallerLogs}, e \in Entries : ListAppend(a, e)
    \/ \E i \in 1..MaxGroups : Str(i)

Spec == Init /\ [][Next]_vars

\* Instances built with the defaults, then changed field by field by the
\* owning code, and displayed.
NextDisplay ==
    \/ \E g \in Gids : ConstructDefault(g)
    \/ \E i \in 1..MaxGroups, g \in Gids : AssignGid(i, g)
    \/ \E i \in 1..MaxGroups, a \in {DefaultLogs, CallerLogs} : AssignLogs(i, a)
    \/ \E i \in 1..MaxGroups, u \in Urls : AssignUrl(i, u)
    \/ \E i \in 1..MaxGroups, x \in Infras : AssignGlobalInfra(i, x)
    \/ \E a \in {DefaultLogs, CallerLogs}, e \in Entries : ListAppend(a, e)
    \/ \E i \in 1..MaxGroups : Str(i)

SpecDisplay == Init /\ [][NextDisplay]_vars

\* ---------------------------------------------------------------- claims

\* C1: for any two instances built with the default log collection, an
\* in-place append to the log collection of one leaves the log collection
\* of the other as it was.
C1_DefaultLogsNotShared ==
    [][ret'.op = "append" =>
         \A i \in DOMAIN groups, j \in DOMAIN groups :
            (i # j /\ passed[i] = 0 /\ passed[j] = 0 /\ groups[i].logs = ret'.addr)
               => heap'[groups'[j].logs] = heap[groups[j].logs]]_vars

\* C2: after any prior operations, Group(gid) yields an instance whose logs
\* is empty and whose url and global_infra are absent.
C2_DefaultsAreEmpty ==
    (ret.op = "init" /\ ret.given = 0) =>
        /\ ~ret.raised
        /\ heap[groups[ret.self].logs] = <<>>
        /\ groups[ret.self].url = None
        /\ groups[ret.self].global_infra = None

\* C3: for every gid g, the display string of the instance Group(g) yields
\* is "<Group gid=" followed by g followed by ">".
C3_DisplayOfFresh ==
    (ret.op = "init" /\ ret.given = 0) =>
        /\ ~ret.raised
        /\ LET s == __str__(heap, groups[ret.self])
           IN  ~s.raised /\ s.value = "<Group gid=" \o ret.gid \o ">"

C3_Witness ==
    /\ ret.op = "init" /\ ret.given = 0 /\ ret.gid = "svc-7"
    /\ __str__(heap, groups[ret.self]).value = "<Group gid=svc-7>"

\* C4: when gid, logs, url and global_infra are all supplied, the four
\* fields of the new instance hold exactly the supplied values, and the
\* log collection holds the elements it held, in their order.
C4_FieldsAsSupplied ==
    (ret.op = "init" /\ ret.given # 0) =>
        /\ ~ret.raised
        /\ groups[ret.self].gid = ret.gid
        /\ groups[ret.self].logs = ret.given
        /\ heap[groups[ret.self].logs] = ret.content
        /\ groups[ret.self].url = ret.url
        /\ groups[ret.self].global_infra = ret.global_infra

C4_Witness ==
    /\ ret.op = "init" /\ ret.given # 0
    /\ ret.gid = "svc-7" /\ ret.url # None /\ ret.global_infra # None
    /\ heap[groups[ret.self].logs] = <<"entryA", "entryB">>

\* C5: the display string depends on gid alone: instances that agree on gid
\* have the same display string whatever their logs, url and global_infra,
\* and a step that leaves an instance's gid alone leaves its display string
\* alone.
C5_DisplayReadsGidOnly ==
    /\ [](\A i \in DOMAIN groups, j \in DOMAIN groups :
             groups[i].gid = groups[j].gid
                => __str__(heap, groups[i]) = __str__(heap, groups[j]))
    /\ [][\A i \in DOMAIN groups :
             groups'[i].gid = groups[i].gid
                => __str__(heap', groups'[i]) = __str__(heap, groups[i])]_vars

C5_Witness ==
    \E i \in DOMAIN groups, j \in DOMAIN groups :
        /\ groups[i].gid = groups[j].gid
        /\ groups[i].url # groups[j].url
        /\ groups[i].global_infra # groups[j].global_infra
        /\ groups[i].logs # groups[j].logs
        /\ heap[groups[i].logs] # heap[groups[j].logs]

\* C6: a construction changes no list object and no field of an instance
\* that existed before it; it adds the one new instance.
C6_ConstructionFrame ==
    [][ret'.op = "init" =>
         /\ heap' = heap
         /\ Len(groups') = Len(groups) + 1
         /\ SubSeq(groups', 1, Len(groups)) = groups]_vars

C6_Witness ==
    /\ ret.op = "init" /\ ret.self = 2
    /\ ret.given # 0 /\ ret.content # <<>>
    /\ groups[1].logs = DefaultLogs

\* C7: construction and the display string never fail: every construction
\* yields its instance, the empty gid included, and every display-string
\* call returns a string.
C7_Total ==
    /\ ret.op = "init" => (~ret.raised /\ Len(groups) = ret.self)
    /\ ret.op = "str" => (~ret.raised /\ ret.value \in STRING)
    /\ \A i \in DOMAIN groups :
          LET s == __str__(heap, groups[i]) IN ~s.raised /\ s.value \in STRING

C7_Witness ==
    /\ ret.op = "str"
    /\ groups[ret.self].gid = ""
    /\ ret.value = "<Group gid=>"

\* C8: in every state the display string of every instance is built from
\* its current gid: after gid is reassigned, the display string is the one
\* of the new gid.
C8_DisplayFollowsGid ==
    /\ \A i \in DOMAIN groups :
          __str__(heap, groups[i]).value = "<Group gid=" \o groups[i].gid \o ">"
    /\ ret.op = "str" => ret.value = "<Group gid=" \o groups[ret.self].gid \o ">"

C8_Witness ==
    /\ ret.op = "setattr" /\ ret.name = "gid"
    /\ ret.old = "svc-7" /\ groups[ret.self].gid = ""
    /\ __str__(heap, groups[ret.self]).value = "<Group gid=>"

\* C9: the constructor keeps the list it is handed, not a copy: what the
\* instance's logs shows is at all times what the caller's list holds, and
\* two instances handed the same list show the same.
C9_LogsByReference ==
    \A i \in DOMAIN groups :
        passed[i] # 0 =>
            /\ heap[groups[i].logs] = heap[passed[i]]
            /\ \A j \in DOMAIN groups :
                  passed[j] = passed[i] => heap[groups[j].logs] = heap[groups[i].logs]

C9_Witness ==
    /\ ret.op = "append" /\ ret.addr = CallerLogs
    /\ \E i \in DOMAIN groups, j \in DOMAIN groups :
          /\ i # j /\ passed[i] = CallerLogs /\ passed[j] = CallerLogs
          /\ heap[groups[i].logs] = heap[CallerLogs]
          /\ heap[groups[j].logs] = heap[CallerLogs]
          /\ heap[CallerLogs][Len(heap[CallerLogs])] = "entryC"

====
